---- MODULE Spec2Model ----
(***************************************************************************)
(* State-machine model of the audio visualiser service:                    *)
(*   app/services/jobs.py   - the in-memory job registry and the wrapper   *)
(*                            scheduled around every job's task            *)
(*   app/services/ffmpeg.py - filter construction and the external render  *)
(*   app/main.py            - the upload, status and download handlers     *)
(*                                                                         *)
(* Every handler and every background task is a coroutine of one asyncio   *)
(* loop, which switches coroutines only at an await: an action is what a   *)
(* coroutine does from one await to the next.                              *)
(***************************************************************************)
EXTENDS Integers, Sequences, FiniteSets, TLC

(* ---------------------------- bounds ---------------------------------- *)
\* Number of jobs created in a run (job ids are 1..MaxJobs).
MaxJobs == 2
\* Number of upload requests handled at the same time.
MaxReqs == 1
\* Sizes are counted in units; Granularity units make one MiB.
Granularity == 2
\* MAX_UPLOAD_SIZE_MB * 1024 * 1024 in units (the ceiling is read from the
\* environment, fractional megabytes allowed: 3 units = 1.5 MiB).
MaxUploadUnits == 3
\* Largest uploaded file, in units.
MaxFileUnits == 5
\* Most entries of a colour list (style siri keeps four).
MaxColors == 5

JobIds == 1..MaxJobs
Reqs == 1..MaxReqs
\* A job id no job was created with (a client may ask for any id).
UnknownId == MaxJobs + 1

(* ------------------------- optional values ---------------------------- *)
\* Python's None and a present value.
None == <<>>
Some(x) == <<x>>

(* ----------------------------- strings -------------------------------- *)
\* str.lower() on one character (the letters the inputs use).
LowerChar(c) ==
    CASE c = "M" -> "m" [] c = "P" -> "p" [] c = "W" -> "w" [] c = "A" -> "a"
      [] c = "V" -> "v" [] c = "O" -> "o" [] c = "G" -> "g" [] c = "J" -> "j"
      [] c = "N" -> "n" [] c = "E" -> "e" [] c = "X" -> "x" [] c = "T" -> "t"
      [] OTHER -> c

RECURSIVE lower_from(_, _)
\* str.lower() of s from position i on.
lower_from(s, i) ==
    IF i > Len(s) THEN ""
    ELSE LowerChar(SubSeq(s, i, i)) \o lower_from(s, i + 1)

\* str.lower()
lower(s) == lower_from(s, 1)

RECURSIVE rfind(_, _, _)
\* str.rfind(c) searched downwards from position i (1-based); 0 when absent.
rfind(s, c, i) ==
    IF i = 0 THEN 0
    ELSE IF SubSeq(s, i, i) = c THEN i
    ELSE rfind(s, c, i - 1)

\* Path(filename).suffix: the last dot of the name and what follows it, unless
\* that dot is the first or the last character of the name.
suffix(filename) ==
    LET i == rfind(filename, ".", Len(filename))
    IN  IF 1 < i /\ i < Len(filename) THEN SubSeq(filename, i, Len(filename))
        ELSE ""

(* ---------------------------- settings -------------------------------- *)
ALLOWED_AUDIO_EXTS == {".mp3", ".wav", ".m4a", ".ogg"}
ALLOWED_IMAGE_EXTS == {".png", ".jpg", ".jpeg"}
\* file.read(1024 * 1024): one MiB
READ_SIZE == Granularity
\* MAX_UPLOAD_SIZE_MB * 1024 * 1024
MAX_UPLOAD_BYTES == MaxUploadUnits

(* ---------------------------- exceptions ------------------------------ *)
\* fastapi.HTTPException(status_code, detail)
HTTPException(code, detail) ==
    [type |-> "HTTPException", status_code |-> code, detail |-> detail]
\* Any other exception, with its message.
OtherException(type, msg) ==
    [type |-> type, status_code |-> 0, detail |-> msg]
\* The value of a variable that holds no exception.
NoExc == [type |-> "", status_code |-> 0, detail |-> ""]

CodeStr(code) ==
    CASE code = 400 -> "400" [] code = 404 -> "404" [] code = 413 -> "413"
      [] code = 500 -> "500" [] OTHER -> "0"

\* str(exc): "<status_code>: <detail>" for an HTTPException, the message of
\* any other exception.
str_exc(exc) ==
    IF exc.type = "HTTPException"
    THEN CodeStr(exc.status_code) \o ": " \o exc.detail
    ELSE exc.detail

(* ------------------------- rendering options -------------------------- *)
\* Values of the style and resolution form fields: a style of each branch of
\* build_filter_chain's dispatch, a resolution that parses and one that does not.
StylePool == {"wave", "siri", "bogus"}
ResolutionPool == {"1280x720", "abcxdef"}

(* ------------------------ resolution parsing -------------------------- *)
Digits == {"0", "1", "2", "3", "4", "5", "6", "7", "8", "9"}

DigitVal(c) ==
    CASE c = "0" -> 0 [] c = "1" -> 1 [] c = "2" -> 2 [] c = "3" -> 3
      [] c = "4" -> 4 [] c = "5" -> 5 [] c = "6" -> 6 [] c = "7" -> 7
      [] c = "8" -> 8 [] c = "9" -> 9 [] OTHER -> 0

RECURSIVE find(_, _, _)
\* str.find(c) searched upwards from position i (1-based); 0 when absent.
find(s, c, i) ==
    IF i > Len(s) THEN 0
    ELSE IF SubSeq(s, i, i) = c THEN i
    ELSE find(s, c, i + 1)

\* str.split("x", 1): the parts before and after the first "x", or the whole
\* string alone when it holds no "x".
split_x_once(s) ==
    LET i == find(s, "x", 1)
    IN  IF i = 0 THEN <<s>>
        ELSE <<SubSeq(s, 1, i - 1), SubSeq(s, i + 1, Len(s))>>

RECURSIVE first_nonblank(_, _)
\* The first position from i upwards that holds no blank (Len(s) + 1: none).
first_nonblank(s, i) ==
    IF i > Len(s) \/ SubSeq(s, i, i) # " " THEN i ELSE first_nonblank(s, i + 1)

RECURSIVE last_nonblank(_, _)
\* The last position from i downwards that holds no blank (0: none).
last_nonblank(s, i) ==
    IF i = 0 \/ SubSeq(s, i, i) # " " THEN i ELSE last_nonblank(s, i - 1)

\* str.strip() of blanks, as int() does before it reads the number.
strip(s) == SubSeq(s, first_nonblank(s, 1), last_nonblank(s, Len(s)))

\* The number without its sign.
unsigned(t) ==
    IF t # "" /\ SubSeq(t, 1, 1) \in {"+", "-"} THEN SubSeq(t, 2, Len(t)) ELSE t

RECURSIVE digits_ok(_, _, _)
\* Decimal digits, single underscores allowed between two digits.
digits_ok(u, i, afterDigit) ==
    IF i > Len(u) THEN afterDigit
    ELSE IF SubSeq(u, i, i) \in Digits THEN digits_ok(u, i + 1, TRUE)
    ELSE IF SubSeq(u, i, i) = "_" /\ afterDigit THEN digits_ok(u, i + 1, FALSE)
    ELSE FALSE

\* Whether int(s) returns (it raises ValueError otherwise).
int_ok(s) == digits_ok(unsigned(strip(s)), 1, FALSE)

RECURSIVE digits_val(_, _, _)
digits_val(u, i, acc) ==
    IF i > Len(u) THEN acc
    ELSE IF SubSeq(u, i, i) = "_" THEN digits_val(u, i + 1, acc)
    ELSE digits_val(u, i + 1, 10 * acc + DigitVal(SubSeq(u, i, i)))

\* int(s), for a string int_ok accepts.
int_val(s) ==
    LET t == strip(s)
        v == digits_val(unsigned(t), 1, 0)
    IN  IF SubSeq(t, 1, 1) = "-" THEN 0 - v ELSE v

\* A parse_resolution that splits the string as it is written.
parse_resolution_case_sensitive(resolution) ==
    LET parts == split_x_once(resolution)
    IN  IF Len(parts) = 2 /\ int_ok(parts[1]) /\ int_ok(parts[2])
        THEN [ok |-> TRUE, width |-> int_val(parts[1]),
              height |-> int_val(parts[2]), exc |-> NoExc]
        ELSE [ok |-> FALSE, width |-> 0, height |-> 0,
              exc |-> HTTPException(400, "Invalid resolution: " \o resolution)]

\* parse_resolution: ok with (width, height), or the HTTPException raised.
parse_resolution(resolution) ==
    LET parts == split_x_once(lower(resolution))
    IN  IF Len(parts) = 2 /\ int_ok(parts[1]) /\ int_ok(parts[2])
        THEN [ok |-> TRUE, width |-> int_val(parts[1]),
              height |-> int_val(parts[2]), exc |-> NoExc]
        ELSE [ok |-> FALSE, width |-> 0, height |-> 0,
              exc |-> HTTPException(400, "Invalid resolution: " \o resolution)]

\* parse_resolution of every value the resolution field takes.
Parsed == [resolution \in ResolutionPool |-> parse_resolution(resolution)]

(* ------------------------- filter construction ------------------------ *)
KnownStyles == {"wave", "spectrum", "ripple", "siri"}

\* build_filter_chain without its final else branch: an unknown style falls
\* through and the graph is built as if nothing were wrong.
build_filter_chain_exc_no_else(style, resolution) ==
    IF ~Parsed[resolution].ok THEN Parsed[resolution].exc ELSE NoExc

\* The exception build_filter_chain raises for these options, NoExc when it
\* returns: the resolution is parsed first, the style is dispatched after.
build_filter_chain_exc(style, resolution) ==
    IF ~Parsed[resolution].ok THEN Parsed[resolution].exc
    ELSE IF style \in {"wave", "spectrum", "ripple"} THEN NoExc
    ELSE IF style = "siri" THEN NoExc
    ELSE HTTPException(400, "Unknown style")

(* --------------------------- string helpers --------------------------- *)
RECURSIVE join_from(_, _, _)
\* sep.join(parts) from part i on.
join_from(parts, sep, i) ==
    IF i > Len(parts) THEN ""
    ELSE IF i = Len(parts) THEN parts[i]
    ELSE parts[i] \o sep \o join_from(parts, sep, i + 1)

\* sep.join(parts)
Join(parts, sep) == join_from(parts, sep, 1)

RECURSIVE replace_from(_, _, _, _)
\* str.replace(old, new) for a one-character old, from position i on.
replace_from(s, old, new, i) ==
    IF i > Len(s) THEN ""
    ELSE (IF SubSeq(s, i, i) = old THEN new ELSE SubSeq(s, i, i))
         \o replace_from(s, old, new, i + 1)

RECURSIVE split_from(_, _, _)
\* str.split(sep) of what follows position i - 1: every part between two
\* separators, the empty ones included.
split_from(s, sep, i) ==
    LET k == find(s, sep, i)
    IN  IF k = 0 THEN <<SubSeq(s, i, Len(s))>>
        ELSE <<SubSeq(s, i, k - 1)>> \o split_from(s, sep, k + 1)

\* f"{n}" for an int
str_int(n) == ToString(n)

\* str(x) for a float x, held here as a number of tenths: 15 is 1.5.
str_float(tenths) ==
    (IF tenths < 0 THEN "-" ELSE "")
    \o ToString((IF tenths < 0 THEN 0 - tenths ELSE tenths) \div 10) \o "."
    \o ToString((IF tenths < 0 THEN 0 - tenths ELSE tenths) % 10)

(* ----------------------------- colour lists --------------------------- *)
RECURSIVE strip_all(_, _)
\* [item.strip() for item in parts], from part i on.
strip_all(parts, i) ==
    IF i > Len(parts) THEN <<>>
    ELSE <<strip(parts[i])>> \o strip_all(parts, i + 1)

NonEmpty(item) == item # ""

\* parse_color_list: no entries for None or "", else the entries between
\* commas or bars, stripped, the empty ones dropped.
parse_color_list(colors) ==
    IF colors = None \/ colors[1] = "" THEN <<>>
    ELSE SelectSeq(strip_all(split_from(replace_from(colors[1], "|", ",", 1), ",", 1), 1),
                   NonEmpty)

(* --------------------------- the filter graph ------------------------- *)
DEFAULT_PALETTE == <<"#3b82f6", "#22c55e", "#f97316", "#ec4899">>
PLAIN_OVERLAY == "overlay=format=auto:shortest=1"
CENTER_OVERLAY == "overlay=x=(W-w)/2:y=(H-h)/2:format=auto:shortest=1"

\* The larger side where the smaller is meant.
larger(a, b) == IF a < b THEN b ELSE a

\* min(width, height)
min(a, b) == IF a < b THEN a ELSE b

\* build_filter_chain, lines 126-130: the extra inputs a cover image brings.
extra_inputs(cover_image) ==
    IF cover_image # None THEN <<"-loop", "1", "-i", cover_image[1]>> ELSE <<>>

\* lines 142-145 and 159-162: the showwaves step of wave and ripple.
showwaves(size, mode, fps, color) ==
    "showwaves=" \o
    Join(<<"s=" \o size, "mode=" \o mode, "rate=" \o str_int(fps)>>
         \o (IF color # "" THEN <<"colors=" \o color>> ELSE <<>>), ":")

\* lines 138-166: the steps applied to the audio for wave, spectrum, ripple.
audio_chain(style, resolution, width, height, fps, color, mode, normalize) ==
    (IF normalize THEN <<"loudnorm">> ELSE <<>>) \o
    (IF style = "wave" THEN <<showwaves(resolution, mode, fps, color)>>
     ELSE IF style = "spectrum"
     THEN <<"showspectrum=" \o
            Join(<<"s=" \o resolution, "mode=combined", "color=intensity",
                   "slide=scroll", "win_func=hann", "rotation=0">>, ":")>>
     ELSE LET square_size == min(width, height)
              ripple_resolution == str_int(square_size) \o "x" \o str_int(square_size)
          IN  <<showwaves(ripple_resolution, "cline", fps, color),
                "format=rgba",
                "v360=input=rectilinear:output=ball:w=" \o str_int(square_size)
                    \o ":h=" \o str_int(square_size),
                "gblur=sigma=2">>)

\* The palette of style siri taken whole, however long the list is.
siri_palette_untruncated(colors) ==
    LET parsed == parse_color_list(colors)
    IN  IF parsed = <<>> THEN DEFAULT_PALETTE ELSE parsed

\* lines 170-173: the palette of style siri.
siri_palette(colors) ==
    LET parsed == parse_color_list(colors)
        palette == IF parsed = <<>> THEN DEFAULT_PALETTE ELSE parsed
    IN  SubSeq(palette, 1, IF Len(palette) < 4 THEN Len(palette) ELSE 4)

\* lines 174-193: the filters of style siri and the label they end in.
siri_chain(resolution, fps, colors, normalize) ==
    LET palette == siri_palette(colors)
        n == Len(palette)
        split_labels == [i \in 1..n |-> "a" \o str_int(i - 1)]
        wave_labels == [i \in 1..n |-> "w" \o str_int(i - 1)]
        splits == Join([i \in 1..n |-> "[" \o split_labels[i] \o "]"], "")
        split == "[0:a]" \o (IF normalize THEN "loudnorm," ELSE "")
                 \o "asplit=" \o str_int(n) \o splits
        waves == [i \in 1..n |->
                    "[" \o split_labels[i] \o "]showwaves="
                    \o Join(<<"s=" \o resolution, "mode=cline",
                              "rate=" \o str_int(fps), "colors=" \o palette[i]>>, ":")
                    \o ",format=rgba,colorchannelmixer=aa=0.7,gblur=sigma=1.5"
                    \o "[" \o wave_labels[i] \o "]"]
        mixed(idx) == "mix" \o str_int(idx)
        current(idx) == IF idx = 1 THEN wave_labels[1] ELSE mixed(idx - 1)
        mixes == [idx \in 1..(n - 1) |->
                    "[" \o current(idx) \o "][" \o wave_labels[idx + 1] \o "]"
                    \o PLAIN_OVERLAY \o "[" \o mixed(idx) \o "]"]
    IN  [palette |-> palette, split |-> split, waves |-> waves, mixes |-> mixes,
         filters |-> <<split>> \o waves \o mixes,
         fg_label |-> current(n)]

\* lines 197-205: the background step.
background(resolution, fps, background_color, cover_image) ==
    IF cover_image # None THEN "[1:v]scale=" \o resolution \o "[bg]"
    ELSE "color=c=" \o (IF background_color # "" THEN background_color ELSE "black")
         \o ":s=" \o resolution \o ":r=" \o str_int(fps) \o "[bg]"

\* line 208: the final composite.
composite(fg_label, overlay_expr) ==
    "[bg][" \o fg_label \o "]" \o overlay_expr \o "[outv]"

\* The filters list with the background step appended first.
assemble_background_first(style_filters, bg, outv) ==
    <<bg>> \o style_filters \o <<outv>>

\* The filters list in the order of its append calls (lines 168, 177-191,
\* then 200 or 205, then 208).
assemble(style_filters, bg, outv) == style_filters \o <<bg>> \o <<outv>>

\* The value of a call that raised exc.
Raised(exc) ==
    [exc |-> exc, inputs |-> <<>>, style_filters |-> <<>>, filters |-> <<>>,
     fg_label |-> "", overlay_expr |-> "", filter_complex |-> ""]

\* build_filter_chain: the exception raised, or (exc = NoExc) the graph and
\* the extra inputs returned, with the locals the graph was put together from.
build_filter_chain(style, resolution, fps, color, mode, colors, background_color, cover_image, normalize) ==
    LET size == parse_resolution(resolution)
    IN  IF ~size.ok THEN Raised(size.exc)
        ELSE IF style \notin {"wave", "spectrum", "ripple", "siri"}
        THEN Raised(HTTPException(400, "Unknown style"))
        ELSE
        LET siri == siri_chain(resolution, fps, colors, normalize)
            style_filters ==
                IF style \in {"wave", "spectrum", "ripple"}
                THEN <<"[0:a]" \o Join(audio_chain(style, resolution, size.width,
                                                    size.height, fps, color, mode,
                                                    normalize), ",")
                       \o "[fg]">>
                ELSE siri.filters
            fg_label == IF style = "siri" THEN siri.fg_label ELSE "fg"
            overlay_expr == IF style = "ripple" THEN CENTER_OVERLAY ELSE PLAIN_OVERLAY
            filters == assemble(style_filters,
                                background(resolution, fps, background_color,
                                           cover_image),
                                composite(fg_label, overlay_expr))
        IN  [exc |-> NoExc, inputs |-> extra_inputs(cover_image),
             style_filters |-> style_filters, filters |-> filters,
             fg_label |-> fg_label, overlay_expr |-> overlay_expr,
             filter_complex |-> Join(filters, ";")]

\* The fixed encoding parameters of render_visualization, line 270.
ENCODING == <<"-c:v", "libx264", "-pix_fmt", "yuv420p", "-c:a", "aac",
              "-b:a", "192k", "-shortest">>

\* An argument list that tests start and duration for truth, not for None.
command_truthy(input_audio, output_video, chain, start, duration) ==
    <<"ffmpeg", "-y">> \o <<"-i", input_audio>> \o chain.inputs
    \o (IF start # None /\ start[1] # 0 THEN <<"-ss", str_float(start[1])>> ELSE <<>>)
    \o (IF duration # None /\ duration[1] # 0 THEN <<"-t", str_float(duration[1])>>
        ELSE <<>>)
    \o <<"-filter_complex", chain.filter_complex>>
    \o <<"-map", "[outv]", "-map", "0:a">>
    \o ENCODING
    \o <<output_video>>

\* render_visualization, lines 253-270: the argument list handed to run_command.
command(input_audio, output_video, chain, start, duration) ==
    <<"ffmpeg", "-y">> \o <<"-i", input_audio>> \o chain.inputs
    \o (IF start # None THEN <<"-ss", str_float(start[1])>> ELSE <<>>)
    \o (IF duration # None THEN <<"-t", str_float(duration[1])>> ELSE <<>>)
    \o <<"-filter_complex", chain.filter_complex>>
    \o <<"-map", "[outv]", "-map", "0:a">>
    \o ENCODING
    \o <<output_video>>

(* ------------------------------ state --------------------------------- *)
VARIABLES
    jobs,      \* _jobs: job id -> [status, output, error]
    hist,      \* per job: every status written to its record, in order
    task,      \* per job: the wrapper coroutine's position and its closure
    outputs,   \* job ids whose {job_id}.mp4 exists in the outputs directory
    uploads,   \* <<kind, job id>> of the saved uploads still on disk
    spawned,   \* job ids an external process was started for
    req,       \* per request slot: the upload handler's position and locals
    resp,      \* the HTTP exchange the last step completed (NoResp: none)
    built      \* the latest call of the renderer looked at on its own (None: none)

vars == <<jobs, hist, task, outputs, uploads, spawned, req, resp, built>>

\* An exchange: the operation asked for with the job id or the file part it
\* is about, and the status code, detail and body it was answered with.
NoResp == [op |-> "none", job_id |-> UnknownId, part |-> "", filename |-> "",
           code |-> 0, detail |-> "", body |-> None]
Response(op, id, code, detail, body) ==
    [NoResp EXCEPT !.op = op, !.job_id = id, !.code = code, !.detail = detail,
                   !.body = body]

(* --------------------------- job registry ----------------------------- *)
\* The registry with the record of what was written to it.
Reg == [jobs |-> jobs, hist |-> hist]
Commit(reg) == jobs' = reg.jobs /\ hist' = reg.hist

\* The record create_job stores for a new job.
new_job == [status |-> "queued", output |-> None, error |-> None]

\* create_job, line 44: _jobs[job_id] = {...}
create_job(reg, job_id) ==
    [jobs |-> (job_id :> new_job) @@ reg.jobs,
     hist |-> (job_id :> <<new_job.status>>) @@ reg.hist]

\* get_job: the record, or the empty dict (None here) for an unknown id.
get_job(js, job_id) == IF job_id \in DOMAIN js THEN Some(js[job_id]) ELSE None

\* An update_job that assigns all three fields, the omitted ones as None.
update_job_overwrite(reg, job_id, status, output, error) ==
    IF job_id \notin DOMAIN reg.jobs THEN reg
    ELSE [jobs |-> [reg.jobs EXCEPT ![job_id] =
                      [status |-> status, output |-> output, error |-> error]],
          hist |-> [reg.hist EXCEPT ![job_id] = Append(@, status)]]

\* update_job(job_id, status=..., output=..., error=...)
update_job(reg, job_id, status, output, error) ==
    IF job_id \notin DOMAIN reg.jobs THEN reg
    ELSE [jobs |-> [reg.jobs EXCEPT ![job_id] =
                      [status |-> status,
                       output |-> IF output # None THEN output ELSE @.output,
                       error  |-> IF error # None THEN error ELSE @.error]],
          hist |-> [reg.hist EXCEPT ![job_id] = Append(@, status)]]

\* uuid4().hex: a fresh identifier.  A repeated draw of 122 random bits is
\* taken not to happen; ids are named in the order they are drawn.
uuid4(js) == Cardinality(DOMAIN js) + 1

\* str(OUTPUT_DIR / f"{job_id}.mp4")
out_path(job_id) == "outputs/" \o ToString(job_id) \o ".mp4"

(* ---------------------- the wrapper and the task ---------------------- *)
\* The wrapper coroutine of job j runs from one await to the next in one
\* step: it is "scheduled" by create_task, waits in "spawning" for
\* create_subprocess_exec and in "communicate" for the encoder to exit, and
\* is "finished" when it has returned or an exception has escaped it.
At(j, pc) == j \in DOMAIN task /\ task[j].pc = pc
Goto(j, pc) == task' = [task EXCEPT ![j].pc = pc]

\* A coroutine that has not started yet, closed over the request's options.
Scheduled(style, resolution, has_cover) ==
    [pc |-> "scheduled", style |-> style, resolution |-> resolution,
     has_cover |-> has_cover, exc |-> NoExc, escaped |-> NoExc]
\* A coroutine that has ended: its closure is gone; exc is the exception its
\* task raised (NoExc: none), escaped the one that left the wrapper.
Finished(exc, escaped) ==
    [pc |-> "finished", style |-> "", resolution |-> "", has_cover |-> FALSE,
     exc |-> exc, escaped |-> escaped]

\* A wrapper that calls the task without marking the job running first.
wrapper_running_unmarked(reg, j) == reg

\* wrapper, line 48
wrapper_running(reg, j) == update_job(reg, j, "running", None, None)

\* A wrapper that marks the job done without naming its output.
wrapper_done_no_output(reg, j, output_path) ==
    update_job(reg, j, "done", None, None)

\* A wrapper that looks its job id up when it ends instead of holding it: it
\* marks the job created last.
wrapper_done_latest(reg, j, output_path) ==
    update_job(reg, Cardinality(DOMAIN reg.jobs), "done", Some(output_path), None)

\* wrapper, line 54
wrapper_done(reg, j, output_path) ==
    update_job(reg, j, "done", Some(output_path), None)

\* A wrapper that records the exception's detail instead of str(exc).
wrapper_error_detail_only(reg, j, exc) ==
    update_job(reg, j, "error", None, Some(exc.detail))

\* A wrapper that drops the record of a job whose task failed.
wrapper_error_discard(reg, j, exc) ==
    [jobs |-> [k \in DOMAIN reg.jobs \ {j} |-> reg.jobs[k]],
     hist |-> [k \in DOMAIN reg.hist \ {j} |-> reg.hist[k]]]

\* wrapper, line 52
wrapper_error(reg, j, exc) ==
    update_job(reg, j, "error", None, Some(str_exc(exc)))

\* An except clause that names HTTPException alone.
catches_http_only(exc) == exc.type = "HTTPException"

\* wrapper, line 51: "except Exception" takes every exception raised here
\* (HTTPException and OSError both derive from Exception).
ExceptionClasses == {"HTTPException", "FileNotFoundError"}
catches(exc) == exc.type \in ExceptionClasses

\* task_func raised exc into the wrapper, whose registry is reg by now: the
\* except clause records it and returns, or the exception escapes the wrapper.
Fail(reg, j, exc) ==
    IF catches(exc)
    THEN /\ Commit(wrapper_error(reg, j, exc))
         /\ task' = [task EXCEPT ![j] = Finished(exc, NoExc)]
    ELSE /\ Commit(reg)
         /\ task' = [task EXCEPT ![j] = Finished(exc, exc)]

\* task, lines 129-134: the uploads left on disk when the unlink calls end
\* with outcome "ok", or with an exception (swallowed) of the first or of the
\* second unlink.
task_cleanup(files, j, has_cover, outcome) ==
    CASE outcome = "ok" -> files \ {<<"audio", j>>, <<"cover", j>>}
      [] outcome = "audio_unlink_raises" -> files
      [] outcome = "cover_unlink_raises" -> files \ {<<"audio", j>>}
CleanupOutcomes(has_cover) ==
    {"ok", "audio_unlink_raises"} \cup
    (IF has_cover THEN {"cover_unlink_raises"} ELSE {})

\* wrapper starts (jobs.py 46-50): mark the job running, call task, which
\* calls render_visualization, which builds the filter graph (ffmpeg.py
\* 240-252) and, unless that raised, awaits create_subprocess_exec.
wrapper_start(j) ==
    /\ At(j, "scheduled")
    /\ LET reg == wrapper_running(Reg, j)
           exc == build_filter_chain_exc(task[j].style, task[j].resolution)
       IN  IF exc # NoExc THEN Fail(reg, j, exc)
           ELSE Commit(reg) /\ Goto(j, "spawning")
    /\ resp' = NoResp
    /\ UNCHANGED <<outputs, uploads, spawned, req, built>>

\* run_command, lines 29-34: create_subprocess_exec has started the encoder
\* and communicate() is awaited, or it raises OSError (no such binary).
run_command_spawn(j) ==
    /\ At(j, "spawning")
    /\ \/ /\ spawned' = spawned \cup {j}
          /\ Goto(j, "communicate")
          /\ UNCHANGED <<jobs, hist>>
       \/ /\ Fail(Reg, j, OtherException("FileNotFoundError", "No such file: ffmpeg"))
          /\ UNCHANGED spawned
    /\ resp' = NoResp
    /\ UNCHANGED <<outputs, uploads, req, built>>

\* The encoder exits in a task whose unlink calls stand outside any try: an
\* exception of theirs is raised into the wrapper like any other.
run_command_exit_unlink_unguarded(j) ==
    /\ At(j, "communicate")
    /\ \/ /\ outputs' = outputs \cup {j}
          /\ \E outcome \in CleanupOutcomes(task[j].has_cover) :
                /\ uploads' = task_cleanup(uploads, j, task[j].has_cover, outcome)
                /\ IF outcome = "ok"
                   THEN /\ Commit(wrapper_done(Reg, j, out_path(j)))
                        /\ task' = [task EXCEPT ![j] = Finished(NoExc, NoExc)]
                   ELSE Fail(Reg, j, OtherException("FileNotFoundError", "unlink"))
       \/ /\ \E partial \in BOOLEAN :
                outputs' = IF partial THEN outputs \cup {j} ELSE outputs
          /\ Fail(Reg, j, HTTPException(500, "FFmpeg failed: " \o "stderr"))
          /\ UNCHANGED uploads
    /\ resp' = NoResp
    /\ UNCHANGED <<spawned, req, built>>

\* run_command, lines 34-37, then task 128-135 and wrapper 51-54: the encoder
\* exits.  With return code 0 it has written {job_id}.mp4, the uploads are
\* unlinked and the job is marked done; with another return code it may have
\* left a partial file, HTTPException(500) is raised and reaches the wrapper.
run_command_exit(j) ==
    /\ At(j, "communicate")
    /\ \/ /\ outputs' = outputs \cup {j}
          /\ \E outcome \in CleanupOutcomes(task[j].has_cover) :
                uploads' = task_cleanup(uploads, j, task[j].has_cover, outcome)
          /\ Commit(wrapper_done(Reg, j, out_path(j)))
          /\ task' = [task EXCEPT ![j] = Finished(NoExc, NoExc)]
       \/ /\ \E partial \in BOOLEAN :
                outputs' = IF partial THEN outputs \cup {j} ELSE outputs
          /\ Fail(Reg, j, HTTPException(500, "FFmpeg failed: " \o "stderr"))
          /\ UNCHANGED uploads
    /\ resp' = NoResp
    /\ UNCHANGED <<spawned, req, built>>

\* One step of job j's background task.
TaskStep(j) ==
    \/ wrapper_start(j)
    \/ run_command_spawn(j)
    \/ run_command_exit(j)

(* --------------------------- request inputs --------------------------- *)
\* File names a client submits for the audio part.
AudioNames == {"a.mp3", "a.MP3", "a.Wav", "a.m4a", "a.ogg",
               "a.txt", "a.mp3.txt", "a.png", "mp3", "a.mp4"}
\* The cover part: absent, or present with a file name (which may be empty).
CoverInputs == {None, Some(""), Some("c.png"), Some("c.JPG"), Some("c.jpeg"),
                Some("c.gif"), Some("c.mp3"), Some("c.jpg.exe")}

(* -------------------------- upload handler ---------------------------- *)
\* written counts the bytes in the destination file of the save_upload call
\* that is running, or of the one that raised last (the file stays on disk).
Idle == [pc |-> "idle", filename |-> "", remaining |-> 0, size |-> 0,
         written |-> 0, has_cover |-> FALSE]

\* validate_file comparing the extension as it is written.
validate_file_case_sensitive(filename, allowed) ==
    LET ext == suffix(filename)
    IN  IF ext \notin allowed
        THEN HTTPException(400, "Unsupported file type: " \o ext)
        ELSE NoExc

\* validate_file: the HTTPException raised, NoExc when the file is accepted.
validate_file(filename, allowed) ==
    LET ext == lower(suffix(filename))
    IN  IF ext \notin allowed
        THEN HTTPException(400, "Unsupported file type: " \o ext)
        ELSE NoExc

\* A ceiling that a file of exactly the permitted size already reaches.
too_large_at_limit(size) == size >= MAX_UPLOAD_BYTES

\* save_upload, line 75: the running count is over the ceiling.
too_large(size) == size > MAX_UPLOAD_BYTES

\* The handler raises exc while it works on a file part: the request is
\* answered with it and ends.
Reject(r, exc, part, filename) ==
    /\ resp' = [Response("upload", UnknownId, exc.status_code, exc.detail, None)
                  EXCEPT !.part = part, !.filename = filename]
    /\ req' = [req EXCEPT ![r] = [Idle EXCEPT !.written = req[r].written]]

\* Jobs are created up to MaxJobs: a request is taken while one is left.
Capacity ==
    Cardinality(DOMAIN jobs) + Cardinality({r \in Reqs : req[r].pc # "idle"}) < MaxJobs

\* upload, lines 101-102: validate the audio name, enter save_upload.
upload_begin(r) ==
    /\ req[r].pc = "idle"
    /\ Capacity
    /\ \E name \in AudioNames, n \in 0..MaxFileUnits :
         LET exc == validate_file(name, ALLOWED_AUDIO_EXTS)
         IN  IF exc # NoExc THEN Reject(r, exc, "audio", name)
             ELSE /\ req' = [req EXCEPT ![r] =
                        [Idle EXCEPT !.pc = "save_audio", !.filename = name,
                                     !.remaining = n]]
                  /\ resp' = NoResp
    /\ UNCHANGED <<jobs, hist, task, outputs, uploads, spawned, built>>

\* A read loop that writes the chunk before it compares the count.
save_upload_write_first(r) ==
    /\ req[r].pc \in {"save_audio", "save_cover"}
    /\ LET chunk == IF req[r].remaining < READ_SIZE THEN req[r].remaining ELSE READ_SIZE
           size == req[r].size + chunk
       IN  IF chunk = 0
           THEN /\ req' = [req EXCEPT ![r] =
                      [Idle EXCEPT !.pc = IF req[r].pc = "save_audio" THEN "cover" ELSE "create",
                                   !.has_cover = req[r].has_cover]]
                /\ resp' = NoResp
           ELSE IF too_large(size)
           THEN /\ resp' = [Response("upload", UnknownId, 413, "File too large", None)
                              EXCEPT !.part = IF req[r].pc = "save_audio" THEN "audio"
                                              ELSE "cover",
                                     !.filename = req[r].filename]
                /\ req' = [req EXCEPT ![r] =
                             [Idle EXCEPT !.written = req[r].written + chunk]]
           ELSE /\ req' = [req EXCEPT ![r].size = size,
                                      ![r].written = @ + chunk,
                                      ![r].remaining = @ - chunk]
                /\ resp' = NoResp
    /\ UNCHANGED <<jobs, hist, task, outputs, uploads, spawned, built>>

\* save_upload, lines 73-79: one turn of the read loop.
save_upload_read(r) ==
    /\ req[r].pc \in {"save_audio", "save_cover"}
    /\ LET chunk == IF req[r].remaining < READ_SIZE THEN req[r].remaining ELSE READ_SIZE
           size == req[r].size + chunk
       IN  IF chunk = 0
           THEN /\ req' = [req EXCEPT ![r] =
                      [Idle EXCEPT !.pc = IF req[r].pc = "save_audio" THEN "cover" ELSE "create",
                                   !.has_cover = req[r].has_cover]]
                /\ resp' = NoResp
           ELSE IF too_large(size)
           THEN Reject(r, HTTPException(413, "File too large"),
                       IF req[r].pc = "save_audio" THEN "audio" ELSE "cover",
                       req[r].filename)
           ELSE /\ req' = [req EXCEPT ![r].size = size,
                                      ![r].written = @ + chunk,
                                      ![r].remaining = @ - chunk]
                /\ resp' = NoResp
    /\ UNCHANGED <<jobs, hist, task, outputs, uploads, spawned, built>>

\* upload, line 105: a cover is taken when the part is there and named.
cover_supplied(cover) == cover # None /\ cover[1] # ""

\* A handler that creates the job before it looks at the cover: a rejected
\* cover leaves the job behind.
upload_cover_job_first(r) ==
    /\ req[r].pc = "cover"
    /\ \E cover \in CoverInputs, n \in 0..MaxFileUnits :
         IF ~cover_supplied(cover)
         THEN /\ n = 0
              /\ req' = [req EXCEPT ![r] = [Idle EXCEPT !.pc = "create"]]
              /\ resp' = NoResp
              /\ UNCHANGED <<jobs, hist, task>>
         ELSE LET exc == validate_file(cover[1], ALLOWED_IMAGE_EXTS)
              IN  IF exc # NoExc
                  THEN /\ n = 0
                       /\ Reject(r, exc, "cover", cover[1])
                       /\ Commit(create_job(Reg, uuid4(jobs)))
                       /\ task' = (uuid4(jobs) :> Scheduled("wave", "1280x720", FALSE)) @@ task
                  ELSE /\ req' = [req EXCEPT ![r] =
                             [Idle EXCEPT !.pc = "save_cover", !.filename = cover[1],
                                          !.remaining = n, !.has_cover = TRUE]]
                       /\ resp' = NoResp
                       /\ UNCHANGED <<jobs, hist, task>>
    /\ UNCHANGED <<outputs, uploads, spawned, built>>

\* upload, lines 104-107: the optional cover image.
upload_cover(r) ==
    /\ req[r].pc = "cover"
    /\ \E cover \in CoverInputs, n \in 0..MaxFileUnits :
         IF ~cover_supplied(cover)
         THEN /\ n = 0
              /\ req' = [req EXCEPT ![r] = [Idle EXCEPT !.pc = "create"]]
              /\ resp' = NoResp
         ELSE LET exc == validate_file(cover[1], ALLOWED_IMAGE_EXTS)
              IN  IF exc # NoExc THEN n = 0 /\ Reject(r, exc, "cover", cover[1])
                  ELSE /\ req' = [req EXCEPT ![r] =
                             [Idle EXCEPT !.pc = "save_cover", !.filename = cover[1],
                                          !.remaining = n, !.has_cover = TRUE]]
                       /\ resp' = NoResp
    /\ UNCHANGED <<jobs, hist, task, outputs, uploads, spawned, built>>

\* A create_job that runs the wrapper up to its first await before it returns
\* (an eagerly started task).
schedule_started(job_id, style, resolution, has_cover) ==
    job_id :> [Scheduled(style, resolution, has_cover) EXCEPT !.pc = "spawning"]

\* create_job, lines 46-57: the wrapper coroutine scheduled for the job,
\* closed over the request's options.
schedule(job_id, style, resolution, has_cover) ==
    job_id :> Scheduled(style, resolution, has_cover)

\* upload, lines 109-138, with both files saved: define the task, create the
\* job and answer.
submit(style, resolution, has_cover) ==
    LET job_id == uuid4(jobs)
    IN  /\ Commit(create_job(Reg, job_id))
        /\ task' = schedule(job_id, style, resolution, has_cover) @@ task
        /\ uploads' = uploads \cup {<<"audio", job_id>>}
                         \cup (IF has_cover THEN {<<"cover", job_id>>} ELSE {})
        /\ resp' = Response("upload", job_id, 200, "", Some("queued"))

\* upload, lines 109-138: the end of a handler that has saved its files.
upload_create(r) ==
    /\ req[r].pc = "create"
    /\ \E style \in StylePool, resolution \in ResolutionPool :
         submit(style, resolution, req[r].has_cover)
    /\ req' = [req EXCEPT ![r] = Idle]
    /\ UNCHANGED <<outputs, spawned, built>>

\* upload, lines 100-138, for a request whose files are accepted and saved.
\* Up to line 107 the handler works on its own locals and on files no other
\* coroutine names, so these lines commute with every other step and are
\* taken here together with the lines that create the job.
upload ==
    /\ Cardinality(DOMAIN jobs) < MaxJobs
    /\ \E style \in StylePool, resolution \in ResolutionPool, has_cover \in BOOLEAN :
         submit(style, resolution, has_cover)
    /\ UNCHANGED <<outputs, spawned, req, built>>

(* ---------------------- status and download --------------------------- *)
\* status, lines 142-147
status(job_id) ==
    /\ LET job == get_job(jobs, job_id)
       IN  resp' = IF job = None
                   THEN Response("status", job_id, 404, "Unknown job id", None)
                   ELSE Response("status", job_id, 200, "", job)
    /\ UNCHANGED <<jobs, hist, task, outputs, uploads, spawned, req, built>>

\* download looking for the file before it looks at the job's status.
download_response_file_first(js, files, job_id) ==
    LET job == get_job(js, job_id)
    IN  IF job = None
        THEN Response("download", job_id, 404, "Unknown job id", None)
        ELSE IF job_id \notin files
        THEN Response("download", job_id, 404, "File not found", None)
        ELSE IF job[1].status # "done"
        THEN Response("download", job_id, 400, "Job not completed yet", None)
        ELSE Response("download", job_id, 200, "video/mp4",
                      Some(ToString(job_id) \o ".mp4"))

\* The answer of download for registry js and outputs directory files.
download_response(js, files, job_id) ==
    LET job == get_job(js, job_id)
    IN  IF job = None
        THEN Response("download", job_id, 404, "Unknown job id", None)
        ELSE IF job[1].status # "done"
        THEN Response("download", job_id, 400, "Job not completed yet", None)
        ELSE IF job_id \notin files
        THEN Response("download", job_id, 404, "File not found", None)
        ELSE Response("download", job_id, 200, "video/mp4",
                      Some(ToString(job_id) \o ".mp4"))

\* download, lines 151-162
download(job_id) ==
    /\ resp' = download_response(jobs, outputs, job_id)
    /\ UNCHANGED <<jobs, hist, task, outputs, uploads, spawned, req, built>>

\* An operator removes a rendered file from the outputs directory.
delete_output(j) ==
    /\ j \in outputs
    /\ outputs' = outputs \ {j}
    /\ resp' = NoResp
    /\ UNCHANGED <<jobs, hist, task, uploads, spawned, req, built>>

(* ----------------------- calls of the renderer ------------------------ *)
\* One call is looked at in a run.  Options render_visualization is called
\* with: every style of the dispatch
\* and an unknown one; resolutions that parse and that do not; MaxColors + 1
\* colour lists of 0..MaxColors entries and lists with bars, blanks and empty
\* entries; seconds counted in tenths.
BuildStyles == {"wave", "spectrum", "ripple", "siri", "bogus"}
BuildResolutions == {"1280x720", "720X1280", "abcxdef", "1x2x3", "720", "64x 48"}
ColorNames == <<"red", "green", "blue", "cyan", "pink", "gold", "gray", "navy">>
BuildColors ==
    {None, Some(""), Some(" , |"), Some("red| green ,,blue")}
    \cup {Some(Join(SubSeq(ColorNames, 1, n), ",")) : n \in 1..MaxColors}
BuildColor == {"white", ""}
BuildBackground == {"black", ""}
BuildCover == {None, Some("uploads/c.png")}
BuildStart == {None, Some(0), Some(15)}
BuildDuration == {None, Some(100)}

\* Further strings parse_resolution alone is called with: no "x", an empty
\* half, signs, an underscore between digits, numbers that are no integers.
ParseResolutions ==
    BuildResolutions \cup {"", "x", "12x", "x12", "+8x-6", "1_0x2", "1.5x2", "1e3x2"}

\* parse_resolution is called with one of the resolutions.
parse_resolution_call ==
    /\ built = None
    /\ \E resolution \in ParseResolutions :
         built' = Some([fn |-> "parse_resolution", resolution |-> resolution,
                        size |-> parse_resolution(resolution)])
    /\ UNCHANGED <<jobs, hist, task, outputs, uploads, spawned, req, resp>>

\* render_visualization, lines 239-272, up to the call of run_command: the
\* graph is built and, unless that raised, the argument list assembled.
render_visualization(input_audio, output_video, style, resolution, fps, color, mode, colors, background_color, cover_image, start, duration, normalize) ==
    LET chain == build_filter_chain(style, resolution, fps, color, mode, colors,
                                    background_color, cover_image, normalize)
    IN  [fn |-> "render_visualization", style |-> style,
         resolution |-> resolution, fps |-> fps, color |-> color, mode |-> mode,
         colors |-> colors, background_color |-> background_color,
         cover_image |-> cover_image, start |-> start, duration |-> duration,
         normalize |-> normalize, input_audio |-> input_audio,
         output_video |-> output_video, chain |-> chain,
         cmd |-> IF chain.exc # NoExc THEN <<>>
                 ELSE command(input_audio, output_video, chain, start, duration)]

\* render_visualization is called with some options.
render_visualization_call ==
    /\ built = None
    /\ \E style \in BuildStyles, resolution \in BuildResolutions,
          color \in BuildColor, colors \in BuildColors,
          background_color \in BuildBackground, cover_image \in BuildCover,
          start \in BuildStart, duration \in BuildDuration, normalize \in BOOLEAN :
         built' = Some(render_visualization("uploads/a.mp3", "outputs/1.mp4",
                           style, resolution, 25, color, "line", colors,
                           background_color, cover_image, start, duration,
                           normalize))
    /\ UNCHANGED <<jobs, hist, task, outputs, uploads, spawned, req, resp>>

(* -------------------------- specifications ---------------------------- *)
Init ==
    /\ jobs = <<>>
    /\ hist = <<>>
    /\ task = <<>>
    /\ outputs = {}
    /\ uploads = {}
    /\ spawned = {}
    /\ req = [r \in Reqs |-> Idle]
    /\ resp = NoResp
    /\ built = None

\* The service: uploads accepted, the jobs' tasks, status and download
\* requests, and the outputs directory being cleaned.
Next ==
    \/ upload
    \/ \E j \in JobIds : TaskStep(j)
    \/ \E id \in JobIds \cup {UnknownId} : status(id)
    \/ \E id \in JobIds \cup {UnknownId} : download(id)
    \/ \E j \in JobIds : delete_output(j)

Spec == Init /\ [][Next]_vars

\* The loop runs every ready coroutine, and the encoder exits.
FairSpec == Spec /\ \A j \in JobIds : WF_vars(TaskStep(j))

\* The upload handler step by step, from the request to its answer.
UploadNext ==
    \/ \E r \in Reqs : upload_begin(r)
    \/ \E r \in Reqs : save_upload_read(r)
    \/ \E r \in Reqs : upload_cover(r)
    \/ \E r \in Reqs : upload_create(r)

UploadSpec == Init /\ [][UploadNext]_vars

\* The renderer alone: its functions called with every combination of options.
BuildNext ==
    \/ parse_resolution_call
    \/ render_visualization_call

BuildSpec == Init /\ [][BuildNext]_vars

(* ============================== claims ================================ *)
Terminal == {"done", "error"}
\* The status of job j, "absent" while no such job was created.
StatusOf(j) == IF j \in DOMAIN jobs THEN jobs[j].status ELSE "absent"
Last(s) == s[Len(s)]
IsPrefix(s, t) == Len(s) <= Len(t) /\ SubSeq(t, 1, Len(s)) = s

(* ------------------------------- C1 ----------------------------------- *)
Lifecycles == {<<"queued", "running", "done">>, <<"queued", "running", "error">>}

\* What was written to every job's record so far is the beginning of one
\* lifecycle, the record holds the status written last, and a task that has
\* been invoked finds "running" written before it.
C1_LifecycleInv ==
    \A j \in DOMAIN jobs :
        /\ hist[j] # <<>>
        /\ \E l \in Lifecycles : IsPrefix(hist[j], l)
        /\ Last(hist[j]) = jobs[j].status
        /\ (task[j].pc = "scheduled") = (jobs[j].status = "queued")
        /\ task[j].pc # "scheduled" => Len(hist[j]) >= 2 /\ hist[j][2] = "running"

\* No step drops a job, and no step changes the record of a job that is done
\* or error.
C1_TerminalStep ==
    \A j \in DOMAIN jobs :
        /\ j \in DOMAIN jobs'
        /\ jobs[j].status \in Terminal => jobs'[j] = jobs[j] /\ hist'[j] = hist[j]

\* C1: the status of every created job only ever moves queued -> running ->
\* (done | error): it starts at queued, is running before the task is invoked,
\* ends at exactly one of done or error, and no later step changes it once it
\* is done or error.
C1_StatusLifecycle == []C1_LifecycleInv /\ [][C1_TerminalStep]_vars

\* One job has gone through queued, running, done and another through queued,
\* running, error.
C1_Witness ==
    \E j, k \in DOMAIN jobs :
        /\ hist[j] = <<"queued", "running", "done">>
        /\ hist[k] = <<"queued", "running", "error">>

(* ------------------------------- C2 ----------------------------------- *)
RecordConsistent(rec) ==
    /\ (rec.output # None) = (rec.status = "done")
    /\ (rec.error # None) = (rec.status = "error")

\* C2: in every reachable state of the registry, and in every record a status
\* read returns, output is set exactly when the status is done and error is
\* set exactly when the status is error.
C2_OutputErrorIffTerminal ==
    /\ \A j \in DOMAIN jobs : RecordConsistent(jobs[j])
    /\ resp.op = "status" /\ resp.code = 200 => RecordConsistent(resp.body[1])

\* A status read returned a done record, with its output, while the task of
\* another job was waiting for its encoder.
C2_Witness ==
    /\ resp.op = "status" /\ resp.code = 200
    /\ resp.body[1].status = "done"
    /\ resp.body[1].output = Some(out_path(resp.job_id))
    /\ \E k \in DOMAIN task : k # resp.job_id /\ task[k].pc = "communicate"

(* ------------------------------- C3 ----------------------------------- *)
\* The options of a job are bad: the style is unknown or the resolution does
\* not parse.
BadOptions(style, resolution) ==
    style \notin KnownStyles \/ ~Parsed[resolution].ok

\* C3: POST /upload answers 400 when the submitted resolution is unparseable
\* or the submitted style is unknown.
C3_BadOptionsAnswered400 ==
    \A j \in DOMAIN task :
        (/\ resp.op = "upload" /\ resp.job_id = j
         /\ task[j].pc = "scheduled"
         /\ BadOptions(task[j].style, task[j].resolution))
        => resp.code = 400

(* ------------------------------- C4 ----------------------------------- *)
\* A task that raised has ended with its job marked error, the error being
\* the text of the exception, and nothing has escaped the wrapper; whatever has
\* failed, status and download requests are answered and an upload is taken.
C4_AbsorbedInv ==
    /\ \A j \in DOMAIN task :
          /\ task[j].escaped = NoExc
          /\ task[j].exc # NoExc =>
                /\ task[j].pc = "finished"
                /\ jobs[j].status = "error"
                /\ jobs[j].error = Some(str_exc(task[j].exc))
    /\ \A id \in JobIds \cup {UnknownId} : ENABLED status(id) /\ ENABLED download(id)
    /\ Cardinality(DOMAIN jobs) < MaxJobs => ENABLED upload

\* The step in which the task of job j fails changes no other job's record.
C4_FailureStep ==
    \A j \in DOMAIN task :
        (task[j].exc = NoExc /\ task'[j].exc # NoExc)
        => \A k \in DOMAIN jobs \ {j} : jobs'[k] = jobs[k]

\* C4: when a job's task fails with an exception, the wrapper marks that job
\* error with the failure's message and absorbs it: it does not leave the
\* background task, it changes no other job's record, and the service goes on
\* answering upload, status and download requests.
C4_FailureAbsorbed == []C4_AbsorbedInv /\ [][C4_FailureStep]_vars

\* A job has failed on an exception that is no HTTPException, and an upload
\* made after that was answered 200.
C4_Witness ==
    \E j \in DOMAIN jobs :
        /\ task[j].exc.type = "FileNotFoundError"
        /\ jobs[j].error = Some("No such file: ffmpeg")
        /\ resp.op = "upload" /\ resp.code = 200 /\ resp.job_id # j

(* ------------------------------- C5 ----------------------------------- *)
\* C5: with a fair scheduler and an encoder that exits, every job that has
\* been created eventually is done or error.
C5_EveryJobTerminates ==
    \A j \in JobIds : (StatusOf(j) # "absent") ~> (StatusOf(j) \in Terminal)

\* Every job the bound allows was created and has ended, one of them after
\* its encoder was started.
C5_Witness ==
    /\ \A j \in JobIds : StatusOf(j) \in Terminal
    /\ spawned # {}

(* ------------------------------- C6 ----------------------------------- *)
\* One task per job, and the record of a job that has ended holds the outcome
\* of its own task: its own output path, or the text of its own exception.
C6_OwnOutcomeInv ==
    /\ DOMAIN task = DOMAIN jobs
    /\ \A j \in DOMAIN jobs :
          /\ jobs[j].status = "done" =>
                /\ task[j].pc = "finished" /\ task[j].exc = NoExc
                /\ jobs[j].output = Some(out_path(j))
          /\ jobs[j].status = "error" =>
                /\ task[j].pc = "finished" /\ task[j].exc # NoExc
                /\ jobs[j].error = Some(str_exc(task[j].exc))
    /\ \A j, k \in DOMAIN jobs : j # k => out_path(j) # out_path(k)

\* A new job gets an id no job has, a task once scheduled is not scheduled
\* again, and the record of a job changes only in a step of that job's own
\* task, which is a step of no other task.
C6_OwnTaskStep ==
    /\ \A j \in DOMAIN task :
          task'[j] # task[j] => task[j].pc # "finished" /\ task'[j].pc # "scheduled"
    /\ \A j \in DOMAIN jobs' \ DOMAIN jobs :
          /\ resp'.op = "upload" /\ resp'.job_id = j
          /\ DOMAIN jobs' = DOMAIN jobs \cup {j}
          /\ \A k \in DOMAIN jobs : jobs'[k] = jobs[k] /\ task'[k] = task[k]
    /\ \A j \in DOMAIN jobs :
          jobs'[j] # jobs[j] =>
              /\ task'[j] # task[j]
              /\ \A k \in DOMAIN jobs \ {j} : task'[k] = task[k] /\ jobs'[k] = jobs[k]

\* C6: two jobs submitted concurrently get distinct ids, one background task
\* runs per job id, and under every interleaving each job's record is written
\* by its own task alone and ends up holding that task's outcome.
C6_JobsIsolated == []C6_OwnOutcomeInv /\ [][C6_OwnTaskStep]_vars

\* Two jobs whose tasks ran side by side (both encoders started) have ended
\* differently, the first in error and the second done.
C6_Witness ==
    \E j, k \in DOMAIN jobs :
        /\ j < k /\ {j, k} \subseteq spawned
        /\ jobs[j].status = "error" /\ jobs[k].status = "done"

(* ------------------------------- C7 ----------------------------------- *)
\* C7: download decides in this order: an unknown id is answered 404 "Unknown
\* job id"; a job that is not done 400 "Job not completed yet"; a done job
\* whose file is missing 404 "File not found"; only otherwise the file is
\* returned as video/mp4 under the name {job_id}.mp4.
C7_DownloadOrder ==
    resp.op = "download" =>
        LET id == resp.job_id
            unknown == id \notin DOMAIN jobs
            not_done == ~unknown /\ jobs[id].status # "done"
            missing == ~unknown /\ ~not_done /\ id \notin outputs
        IN  /\ unknown => resp.code = 404 /\ resp.detail = "Unknown job id"
            /\ not_done => resp.code = 400 /\ resp.detail = "Job not completed yet"
            /\ missing => resp.code = 404 /\ resp.detail = "File not found"
            /\ (~unknown /\ ~not_done /\ ~missing) =>
                  /\ resp.code = 200 /\ resp.detail = "video/mp4"
                  /\ resp.body = Some(ToString(id) \o ".mp4")
            /\ resp.code # 200 => resp.body = None

\* A download of a job that ended in error was answered 400 although the
\* encoder had left a file under the job's name.
C7_Witness ==
    /\ resp.op = "download" /\ resp.code = 400
    /\ resp.job_id \in DOMAIN jobs /\ jobs[resp.job_id].status = "error"
    /\ resp.job_id \in outputs

(* ------------------------------- C8 ----------------------------------- *)
\* C8 as stated: the first step of a job submitted with an unknown style ends
\* the job in error with 400 "Unknown style", no process started.
C8_UnknownStyleMessage ==
    [][\A j \in DOMAIN task :
          (/\ task[j].pc = "scheduled" /\ task[j].style \notin KnownStyles
           /\ task'[j] # task[j])
          => /\ jobs'[j].status = "error"
             /\ jobs'[j].error = Some("400: Unknown style")
             /\ j \notin spawned']_vars

\* While a task is about to start its encoder, or waits for it, its style is
\* a known one and its resolution parses.
C8_BuiltInv ==
    \A j \in DOMAIN task :
        task[j].pc \in {"spawning", "communicate"} =>
            ~BadOptions(task[j].style, task[j].resolution)

\* The first step of a job with an unknown style ends it in error, with
\* "Unknown style" when the resolution parses and with the resolution's own
\* message when it does not; an encoder is started for a job only by a task
\* that is about to start it.
C8_UnknownStyleStep ==
    /\ \A j \in DOMAIN task :
          (/\ task[j].pc = "scheduled" /\ task[j].style \notin KnownStyles
           /\ task'[j] # task[j])
          => /\ task'[j].pc = "finished"
             /\ jobs'[j].status = "error"
             /\ jobs'[j].error =
                   Some(IF Parsed[task[j].resolution].ok
                        THEN "400: Unknown style"
                        ELSE "400: Invalid resolution: " \o task[j].resolution)
             /\ j \notin spawned'
    /\ \A j \in spawned' \ spawned : j \in DOMAIN task /\ task[j].pc = "spawning"

\* C8, amended: a job submitted with an unknown style fails in filter
\* construction with a 400 before any external process is started, and ends in
\* error; the message is "Unknown style" when the resolution parses and
\* "Invalid resolution: ..." when it does not, the resolution being parsed first.
C8_UnknownStyleFails == []C8_BuiltInv /\ [][C8_UnknownStyleStep]_vars

\* A job has ended in error on "Unknown style" with no encoder started for it.
C8_Witness ==
    \E j \in DOMAIN jobs :
        /\ task[j].pc = "finished"
        /\ jobs[j].error = Some("400: Unknown style")
        /\ j \notin spawned

(* ------------------------------- C9 ----------------------------------- *)
Saving == {"save_audio", "save_cover"}

\* What save_upload has counted it has written, and that is within the ceiling.
C9_WrittenInv ==
    \A r \in Reqs :
        req[r].pc \in Saving =>
            req[r].written = req[r].size /\ req[r].size <= MAX_UPLOAD_BYTES

\* One turn of the read loop of request r, the file being total long: the
\* request is answered 413 exactly when the count with this chunk is over the
\* ceiling; a file within the ceiling is never answered 413 and the loop ends
\* only with all of it written; a file over it never gets past the loop.
C9_ReadStep ==
    \A r \in Reqs :
        (req[r].pc \in Saving /\ req'[r] # req[r]) =>
            LET total == req[r].size + req[r].remaining
                chunk == IF req[r].remaining < READ_SIZE THEN req[r].remaining
                         ELSE READ_SIZE
                count == req[r].size + chunk
                aborted == /\ resp'.op = "upload" /\ resp'.code = 413
                           /\ req'[r].pc = "idle"
            IN  /\ aborted = (count > MAX_UPLOAD_BYTES)
                /\ total <= MAX_UPLOAD_BYTES =>
                      /\ ~aborted
                      /\ req'[r].pc \notin Saving => req[r].written = total
                      /\ req'[r].pc \in Saving =>
                            req'[r].size + req'[r].remaining = total
                /\ total > MAX_UPLOAD_BYTES => req'[r].pc \in Saving \cup {"idle"}

\* C9: while an upload is read in chunks the request is answered 413 as soon
\* as the running byte count exceeds the ceiling; an upload whose size is at or
\* below the ceiling, exactly equal included, is saved in full and goes on.
C9_SizeCeiling == []C9_WrittenInv /\ [][C9_ReadStep]_vars

\* A file of exactly the ceiling's size has been read and written in full.
C9_Witness ==
    \E r \in Reqs :
        /\ req[r].pc \in Saving /\ req[r].remaining = 0
        /\ req[r].written = MAX_UPLOAD_BYTES

(* ------------------------------- C10 ---------------------------------- *)
\* The name ends, whatever the case of its letters, in one of the extensions
\* and has something before it.
HasExtension(name, exts) ==
    \E e \in exts :
        /\ Len(name) > Len(e)
        /\ lower(SubSeq(name, Len(name) - Len(e) + 1, Len(name))) = e

\* C10: validation passes for every audio name whose extension, compared
\* without regard to case, is .mp3, .wav, .m4a or .ogg and is answered 400 for
\* every other; a cover is validated only when it comes with a non-empty name,
\* and then passes exactly for .png, .jpg and .jpeg and is answered 400 otherwise.
C10_ExtensionValidation ==
    /\ \A r \in Reqs :
          /\ req[r].pc = "save_audio" =>
                HasExtension(req[r].filename, {".mp3", ".wav", ".m4a", ".ogg"})
          /\ req[r].pc = "save_cover" =>
                HasExtension(req[r].filename, {".png", ".jpg", ".jpeg"})
    /\ (resp.op = "upload" /\ resp.code = 400) =>
          /\ resp.part \in {"audio", "cover"}
          /\ resp.part = "audio" =>
                ~HasExtension(resp.filename, {".mp3", ".wav", ".m4a", ".ogg"})
          /\ resp.part = "cover" =>
                /\ resp.filename # ""
                /\ ~HasExtension(resp.filename, {".png", ".jpg", ".jpeg"})

\* A cover named in capitals has passed validation and is being saved.
C10_Witness ==
    \E r \in Reqs : req[r].pc = "save_cover" /\ req[r].filename = "c.JPG"

(* ------------------------------- C11 ---------------------------------- *)
\* While a job is queued, running or error its uploaded audio is on disk.
C11_KeptInv ==
    \A j \in DOMAIN jobs :
        jobs[j].status # "done" => <<"audio", j>> \in uploads

\* A step of job j's task removes no upload but its own, removes one only
\* when the encoder has exited with success and the job becomes done, and
\* leaves every upload where it is when the job becomes error; whatever the
\* unlink calls do after a successful render, the job becomes done with its
\* output path.
C11_CleanupStep ==
    \A j \in DOMAIN task :
        task'[j] # task[j] =>
            /\ uploads' \subseteq uploads
            /\ (uploads \ uploads') \subseteq {<<"audio", j>>, <<"cover", j>>}
            /\ uploads' # uploads =>
                  /\ task[j].pc = "communicate" /\ j \in outputs'
                  /\ jobs'[j].status = "done"
            /\ jobs'[j].status = "error" => uploads' = uploads
            /\ (task[j].pc = "communicate" /\ task'[j].exc = NoExc) =>
                  /\ jobs'[j].status = "done"
                  /\ jobs'[j].output = Some(out_path(j))
                  /\ jobs'[j].error = None

\* C11: a job's uploaded audio (and cover) is deleted only after its render
\* has succeeded and stays on disk whenever the render fails; a failure of the
\* deletion is swallowed, the job still reaching done with its output path.
C11_UploadsCleanup == []C11_KeptInv /\ [][C11_CleanupStep]_vars

\* A job is done with its output path although its audio could not be
\* deleted, and another job has failed with both its uploads left on disk.
C11_Witness ==
    \E j, k \in DOMAIN jobs :
        /\ jobs[j].status = "done" /\ jobs[j].output = Some(out_path(j))
        /\ <<"audio", j>> \in uploads
        /\ jobs[k].status = "error"
        /\ {<<"audio", k>>, <<"cover", k>>} \subseteq uploads

(* ------------------------------- C12 ---------------------------------- *)
\* C12: when POST /upload produces its answer {job_id, status: "queued"}, the
\* new job's record is in the registry with status queued and neither output
\* nor error, and its background task has not started to run.
C12_QueuedAtResponse ==
    (resp.op = "upload" /\ resp.code = 200) =>
        LET j == resp.job_id
        IN  /\ resp.body = Some("queued")
            /\ j \in DOMAIN jobs
            /\ jobs[j] = [status |-> "queued", output |-> None, error |-> None]
            /\ hist[j] = <<"queued">>
            /\ task[j].pc = "scheduled"
            /\ j \notin spawned /\ j \notin outputs

\* An upload was answered queued while the encoder of an earlier job was
\* still running.
C12_Witness ==
    /\ resp.op = "upload" /\ resp.code = 200
    /\ StatusOf(resp.job_id) = "queued"
    /\ \E k \in DOMAIN task : task[k].pc = "communicate"

(* ------------------------------- C13 ---------------------------------- *)
\* Arguments update_job is called with: any status, output and error either
\* omitted or supplied.
UpdateStatuses == {"queued", "running", "done", "error"}
UpdateOutputs == {None, Some("outputs/x.mp4")}
UpdateErrors == {None, Some("boom")}

\* C13: update_job on an unknown id leaves the registry as it is and creates
\* no record; on a known id it overwrites the status and those of output and
\* error that were supplied, leaving the omitted fields and every other job's
\* record unchanged.  Stated of every reachable registry and every argument.
C13_UpdateFrame ==
    \A id \in JobIds \cup {UnknownId}, st \in UpdateStatuses,
       o \in UpdateOutputs, e \in UpdateErrors :
        LET after == update_job(Reg, id, st, o, e).jobs
        IN  /\ DOMAIN after = DOMAIN jobs
            /\ id \notin DOMAIN jobs => after = jobs
            /\ id \in DOMAIN jobs =>
                  /\ after[id].status = st
                  /\ after[id].output = (IF o = None THEN jobs[id].output ELSE o)
                  /\ after[id].error = (IF e = None THEN jobs[id].error ELSE e)
                  /\ \A k \in DOMAIN jobs \ {id} : after[k] = jobs[k]

\* The registry holds a done job, whose output an update that omits it keeps,
\* next to a job in error, whose record the same update leaves alone; one id
\* is still unknown.
C13_Witness ==
    \E j, k \in DOMAIN jobs :
        /\ jobs[j].output # None /\ jobs[k].error # None
        /\ update_job(Reg, j, "running", None, None).jobs[j].output = jobs[j].output
        /\ update_job(Reg, j, "running", None, None).jobs[k] = jobs[k]
        /\ update_job(Reg, UnknownId, "running", None, None).jobs = jobs

(* ------------------------------- C14 ---------------------------------- *)
StartsWith(s, prefix) ==
    Len(prefix) <= Len(s) /\ SubSeq(s, 1, Len(prefix)) = prefix
EndsWith(s, tail) ==
    Len(tail) <= Len(s) /\ SubSeq(s, Len(s) - Len(tail) + 1, Len(s)) = tail

\* The pieces of s between its separators, in order.
Pieces(s, sep) ==
    LET at == {i \in 1..Len(s) : SubSeq(s, i, i) = sep}
        cut(k) == IF k = 0 THEN 0
                  ELSE IF k > Cardinality(at) THEN Len(s) + 1
                  ELSE CHOOSE p \in at : Cardinality({q \in at : q < p}) = k - 1
    IN  [k \in 1..(Cardinality(at) + 1) |-> SubSeq(s, cut(k - 1) + 1, cut(k) - 1)]

\* The call looked at is one of render_visualization whose graph was built.
Built == built # None /\ built[1].fn = "render_visualization"
                      /\ built[1].chain.exc = NoExc

\* The background step the options ask for.
C14_Background(b) ==
    IF b.cover_image # None THEN "[1:v]scale=" \o b.resolution \o "[bg]"
    ELSE "color=c=" \o (IF b.background_color = "" THEN "black" ELSE b.background_color)
         \o ":s=" \o b.resolution \o ":r=25[bg]"

\* C14 as stated: the graph is the background step, then the style's chains,
\* then the composite, joined by semicolons.
C14_BackgroundFirst ==
    Built =>
        LET b == built[1]
            c == b.chain
        IN  c.filter_complex =
                Join(<<C14_Background(b)>> \o c.style_filters
                     \o <<"[bg][" \o c.fg_label \o "]" \o c.overlay_expr \o "[outv]">>,
                     ";")

\* C14, amended: for every style, with or without a cover image, the graph is
\* the semicolon-joined concatenation of the style's chains, which end in the
\* foreground label, then the background step producing bg (the cover scaled,
\* or a solid colour), then the composite [bg][fg-label]<overlay>[outv]: the
\* background step stands after the style's chains, not before them.
C14_GraphOrder ==
    Built =>
        LET b == built[1]
            c == b.chain
            f == Pieces(c.filter_complex, ";")
            n == Len(f)
        IN  /\ f = c.filters
            /\ n = Len(c.style_filters) + 2 /\ n >= 3
            /\ SubSeq(f, 1, n - 2) = c.style_filters
            /\ \A i \in 1..(n - 2) :
                  /\ ~EndsWith(f[i], "[bg]") /\ ~EndsWith(f[i], "[outv]")
                  /\ ~StartsWith(f[i], "[bg]")
            /\ EndsWith(f[n - 2], "[" \o c.fg_label \o "]")
            /\ f[n - 1] = C14_Background(b)
            /\ f[n] = "[bg][" \o c.fg_label \o "]" \o c.overlay_expr \o "[outv]"

\* A graph of style siri over a cover image, several chains before the
\* background step.
C14_Witness ==
    /\ Built
    /\ built[1].style = "siri" /\ built[1].cover_image # None
    /\ Len(built[1].chain.style_filters) > 1
    /\ StartsWith(built[1].chain.filters[Len(built[1].chain.filters) - 1], "[1:v]scale=")

(* ------------------------------- C15 ---------------------------------- *)
\* The entries a colours value of the calls holds, written out by hand.
C15_Entries(colors) ==
    LET ns == {n \in 1..Len(ColorNames) :
                 colors = Some(Join(SubSeq(ColorNames, 1, n), ","))}
    IN  IF ns # {} THEN SubSeq(ColorNames, 1, CHOOSE n \in ns : TRUE)
        ELSE IF colors = Some("red| green ,,blue") THEN <<"red", "green", "blue">>
        ELSE <<>>

\* The palette the claim describes for a colours value.
C15_Palette(colors) ==
    LET entries == C15_Entries(colors)
        whole == IF entries = <<>>
                 THEN <<"#3b82f6", "#22c55e", "#f97316", "#ec4899">>
                 ELSE entries
    IN  IF Len(whole) > 4 THEN SubSeq(whole, 1, 4) ELSE whole

C15_Label(letters, i) == letters \o ToString(i)

\* C15: for style siri the palette is the parsed colours list, the default
\* four colours when that list is empty, cut to its first four entries; for a
\* palette of n colours the audio is split into exactly n copies, exactly n
\* waveform layers are produced, one per palette colour in palette order, and
\* the layers are composited left to right by exactly n - 1 overlay steps, the
\* last of which (the single layer when n = 1) carries the foreground label
\* of the final composite.
C15_SiriLayers ==
    (Built /\ built[1].style = "siri") =>
        LET b == built[1]
            f == b.chain.style_filters
            palette == C15_Palette(b.colors)
            n == Len(palette)
            fg == IF n = 1 THEN "w0" ELSE C15_Label("mix", n - 1)
        IN  /\ n \in 1..4
            /\ Len(f) = 1 + n + (n - 1)
            /\ f[1] = "[0:a]" \o (IF b.normalize THEN "loudnorm," ELSE "")
                      \o "asplit=" \o ToString(n)
                      \o Join([i \in 1..n |-> "[" \o C15_Label("a", i - 1) \o "]"], "")
            /\ \A i \in 1..n :
                  /\ StartsWith(f[1 + i],
                         "[" \o C15_Label("a", i - 1) \o "]showwaves=s=" \o b.resolution
                         \o ":mode=cline:rate=25:colors=" \o palette[i] \o ",")
                  /\ EndsWith(f[1 + i], "[" \o C15_Label("w", i - 1) \o "]")
            /\ \A k \in 1..(n - 1) :
                  f[1 + n + k] =
                      "[" \o (IF k = 1 THEN "w0" ELSE C15_Label("mix", k - 1)) \o "]"
                      \o "[" \o C15_Label("w", k) \o "]"
                      \o "overlay=format=auto:shortest=1"
                      \o "[" \o C15_Label("mix", k) \o "]"
            /\ b.chain.fg_label = fg
            /\ StartsWith(b.chain.filters[Len(b.chain.filters)], "[bg][" \o fg \o "]")

\* A siri graph for a list of five colours: four copies, four layers, three
\* overlay steps.
C15_Witness ==
    /\ Built /\ built[1].style = "siri"
    /\ Len(parse_color_list(built[1].colors)) = 5
    /\ Len(built[1].chain.style_filters) = 8
    /\ built[1].chain.fg_label = "mix3"

(* ------------------------------- C16 ---------------------------------- *)
\* The seconds of the calls as the encoder is given them.
C16_Seconds(t) ==
    CASE t = Some(0) -> "0.0" [] t = Some(15) -> "1.5" [] t = Some(100) -> "10.0"

\* C16: the argument list render_visualization assembles is, in this order:
\* the overwrite flag, the audio input, the cover's extra inputs exactly when
\* a cover was given, the seek flag with its value exactly when start was
\* given (a start of 0 included), the duration flag with its value exactly
\* when duration was given, the filter graph, the mappings [outv] and 0:a,
\* the fixed encoding parameters and, last, the destination path.
C16_ArgumentOrder ==
    Built =>
        LET b == built[1]
        IN  b.cmd =
              <<"ffmpeg", "-y", "-i", b.input_audio>>
              \o (IF b.cover_image # None
                  THEN <<"-loop", "1", "-i", b.cover_image[1]>> ELSE <<>>)
              \o (IF b.start # None THEN <<"-ss", C16_Seconds(b.start)>> ELSE <<>>)
              \o (IF b.duration # None THEN <<"-t", C16_Seconds(b.duration)>> ELSE <<>>)
              \o <<"-filter_complex", b.chain.filter_complex,
                   "-map", "[outv]", "-map", "0:a",
                   "-c:v", "libx264", "-pix_fmt", "yuv420p", "-c:a", "aac",
                   "-b:a", "192k", "-shortest", b.output_video>>

\* An argument list for a cover image and a start of 0 without a duration:
\* the seek flag follows the cover's inputs and the filter graph follows it.
C16_Witness ==
    /\ Built
    /\ built[1].cover_image # None /\ built[1].start = Some(0)
    /\ built[1].duration = None
    /\ SubSeq(built[1].cmd, 5, 11) =
          <<"-loop", "1", "-i", "uploads/c.png", "-ss", "0.0", "-filter_complex">>

(* ------------------------------- C17 ---------------------------------- *)
\* The call looked at is one of parse_resolution.
Parsing == built # None /\ built[1].fn = "parse_resolution"

\* What int(width), int(height) are for the strings that hold two integers
\* around their first "x", written out by hand; None for the other strings.
C17_Expected(resolution) ==
    CASE resolution = "1280x720" -> Some(<<1280, 720>>)
      [] resolution = "720X1280" -> Some(<<720, 1280>>)
      [] resolution = "64x 48" -> Some(<<64, 48>>)
      [] resolution = "+8x-6" -> Some(<<8, 0 - 6>>)
      [] resolution = "1_0x2" -> Some(<<10, 2>>)
      [] OTHER -> None

\* The same with the values the claim gives for "720X1280": those of
\* "1280x720".
C17_ExpectedAsStated(resolution) ==
    IF resolution = "720X1280" THEN Some(<<1280, 720>>)
    ELSE C17_Expected(resolution)

\* The call of parse_resolution looked at succeeded exactly when two integers
\* are expected, with these as (width, height), and failed otherwise with 400
\* "Invalid resolution: " followed by the string.
C17_Agrees(expected) ==
    LET r == built[1].resolution
        size == built[1].size
    IN  /\ size.ok = (expected # None)
        /\ size.ok =>
              /\ <<size.width, size.height>> = expected[1]
              /\ size.exc = NoExc
        /\ ~size.ok =>
              /\ size.exc.type = "HTTPException"
              /\ size.exc.status_code = 400
              /\ size.exc.detail = "Invalid resolution: " \o r

\* C17 as stated: parsing lower-cases the string and splits it once on "x";
\* it succeeds exactly when both halves parse as integers; "1280x720" yields
\* width 1280 and height 720 and "720X1280" succeeds with the same values;
\* every other string fails with 400.
C17_SameValues ==
    Parsing => C17_Agrees(C17_ExpectedAsStated(built[1].resolution))

\* C17, amended: parsing lower-cases the string and splits it once on "x"; it
\* succeeds exactly when both halves parse as integers and returns them as
\* (width, height): "1280x720" yields 1280 and 720, "720X1280" succeeds as
\* well and yields width 720 and height 1280; every other string (no "x", a
\* half that is no integer, a second "x" in the height half) fails with 400
\* "Invalid resolution: " followed by the string.
C17_ParseResolution ==
    Parsing => C17_Agrees(C17_Expected(built[1].resolution))

\* "720X1280" was parsed: width 720, height 1280.
C17_Witness ==
    /\ Parsing /\ built[1].resolution = "720X1280"
    /\ built[1].size.ok
    /\ built[1].size.width = 720 /\ built[1].size.height = 1280

(* ------------------------------- C18 ---------------------------------- *)
\* The side of the square the claim gives for a resolution: the smaller of
\* the two integers written in it.
C18_Side(resolution) ==
    LET wh == C17_Expected(resolution)[1]
    IN  ToString(IF wh[1] <= wh[2] THEN wh[1] ELSE wh[2])

\* C18: for style ripple and a resolution WxH the waveform step and the
\* projection step both work on a square of side min(W, H), and the final
\* composite uses the centering overlay expression; for every other style
\* the composite uses the plain one.
C18_RippleSquare ==
    Built =>
        LET b == built[1]
            c == b.chain
            side == C18_Side(b.resolution)
            last == c.filters[Len(c.filters)]
        IN  IF b.style = "ripple"
            THEN /\ Len(c.style_filters) = 1
                 /\ StartsWith(c.style_filters[1],
                        "[0:a]" \o (IF b.normalize THEN "loudnorm," ELSE "")
                        \o "showwaves=s=" \o side \o "x" \o side \o ":mode=cline:")
                 /\ EndsWith(c.style_filters[1],
                        ",format=rgba,v360=input=rectilinear:output=ball:w=" \o side
                        \o ":h=" \o side \o ",gblur=sigma=2[fg]")
                 /\ last = "[bg][fg]overlay=x=(W-w)/2:y=(H-h)/2:format=auto:shortest=1[outv]"
            ELSE /\ c.overlay_expr = "overlay=format=auto:shortest=1"
                 /\ last = "[bg][" \o c.fg_label
                           \o "]overlay=format=auto:shortest=1[outv]"

\* A ripple graph for 1280x720: the waveform is drawn on 720x720.
C18_Witness ==
    /\ Built
    /\ built[1].style = "ripple" /\ built[1].resolution = "1280x720"
    /\ StartsWith(built[1].chain.style_filters[1], "[0:a]showwaves=s=720x720:")
    /\ built[1].chain.overlay_expr = CENTER_OVERLAY

(* ------------------------------- C19 ---------------------------------- *)
\* Every upload exchange is answered 200, 400 or 413.
C19_CodesInv ==
    resp.op = "upload" => resp.code \in {200, 400, 413}

\* A step that answers an upload with 400 or 413 leaves the registry and the
\* tasks as they are, and so does every step of the handler before its last:
\* a job is created and its task scheduled only in the step that answers 200.
C19_RejectStep ==
    /\ (resp'.op = "upload" /\ resp'.code \in {400, 413}) =>
          jobs' = jobs /\ hist' = hist /\ task' = task
    /\ (jobs' # jobs \/ task' # task) =>
          /\ resp'.op = "upload" /\ resp'.code = 200
          /\ \E r \in Reqs : req[r].pc = "create" /\ req'[r].pc = "idle"

\* C19: an upload request that is rejected (400 for a bad audio or cover
\* extension, 413 for an oversized audio or cover file) creates no job record
\* and schedules no task: the registry is unchanged by the request, also when
\* the cover is rejected after the audio file was saved.
C19_RejectedCreatesNothing == []C19_CodesInv /\ [][C19_RejectStep]_vars

\* A cover was rejected as too large, its audio file saved before it, with
\* the job of an earlier request in the registry.
C19_Witness ==
    /\ resp.op = "upload" /\ resp.code = 413 /\ resp.part = "cover"
    /\ Cardinality(DOMAIN jobs) = 1
    /\ DOMAIN task = DOMAIN jobs

(* ------------------------------- C20 ---------------------------------- *)
\* The destination file of a save_upload call never holds more than the
\* ceiling, while the call runs and after it has raised.
C20_WrittenInv ==
    \A r \in Reqs : req[r].written <= MAX_UPLOAD_BYTES

\* One turn of the read loop: a chunk that pushes the count over the ceiling
\* is not written, and the request is answered 413; any other chunk is
\* written whole.
C20_WriteStep ==
    \A r \in Reqs :
        (req[r].pc \in Saving /\ req'[r] # req[r]) =>
            LET chunk == IF req[r].remaining < READ_SIZE THEN req[r].remaining
                         ELSE READ_SIZE
                count == req[r].size + chunk
            IN  IF count > MAX_UPLOAD_BYTES
                THEN /\ req'[r].written = req[r].written
                     /\ req'[r].pc = "idle"
                     /\ resp'.op = "upload" /\ resp'.code = 413
                ELSE chunk > 0 => req'[r].written = req[r].written + chunk

\* C20: at every point of a streamed upload the bytes written to the
\* destination file do not exceed the ceiling: the count is compared before
\* the chunk is written, so the chunk that pushes it over the ceiling is never
\* written.
C20_WrittenWithinCeiling == []C20_WrittenInv /\ [][C20_WriteStep]_vars

\* A request was answered 413 with the first chunk of its file written and
\* the chunk that went over the ceiling left out.
C20_Witness ==
    \E r \in Reqs :
        /\ req[r].pc = "idle"
        /\ resp.op = "upload" /\ resp.code = 413
        /\ req[r].written = READ_SIZE
        /\ req[r].written < MAX_UPLOAD_BYTES

(* ------------------------------- C21 ---------------------------------- *)
\* The id an upload was answered with is in the registry, and a status
\* request answered 404 named an id that is not; a status request for an id
\* of the registry can be answered at any time.
C21_ReturnedInv ==
    /\ (resp.op = "upload" /\ resp.code = 200) => resp.job_id \in DOMAIN jobs
    /\ (resp.op = "status" /\ resp.code = 404) => resp.job_id \notin DOMAIN jobs
    /\ \A j \in DOMAIN jobs : ENABLED status(j)

\* No step removes a record; an id comes into the registry only with the
\* upload answered with it; a status request for an id of the registry is
\* answered 200 with that id's record.
C21_GrowStep ==
    /\ \A j \in DOMAIN jobs : j \in DOMAIN jobs'
    /\ \A j \in DOMAIN jobs' \ DOMAIN jobs :
          resp'.op = "upload" /\ resp'.code = 200 /\ resp'.job_id = j
    /\ (resp'.op = "status" /\ resp'.job_id \in DOMAIN jobs) =>
          /\ resp'.code = 200
          /\ resp'.body = Some(jobs[resp'.job_id])

\* C21: the job registry only grows: no operation (create, get, update, a
\* task succeeding or failing, a status or download request) removes a record,
\* so once POST /upload has returned a job id, GET /status for that id never
\* answers 404.
C21_RegistryOnlyGrows == []C21_ReturnedInv /\ [][C21_GrowStep]_vars

\* Every job the bound allows was created, the first has failed and the last
\* is done with its file removed from the outputs directory, and a status
\* request for the failed one was answered 200 with its record.
C21_Witness ==
    /\ Cardinality(DOMAIN jobs) = MaxJobs
    /\ jobs[1].status = "error"
    /\ jobs[MaxJobs].status = "done" /\ MaxJobs \notin outputs
    /\ resp.op = "status" /\ resp.job_id = 1 /\ resp.code = 200
    /\ resp.body = Some(jobs[1])

====
